---- MODULE Spec2Model ----
(***************************************************************************)
(* The persistence schema of the payment splitter: Chain, Wallet,          *)
(* ERC20Token, PaymentGroup, Payee and Payment rows, the conditional       *)
(* unique constraints and PaymentGroup.clean, driven through the model     *)
(* API (full_clean + save for a create or an update, delete and restore    *)
(* of the soft-delete base class, which save the row without validating).  *)
(*                                                                         *)
(* A row is a record keyed by its primary key id.  Primary keys are handed *)
(* out in creation order; soft-deletable rows are never removed, so the    *)
(* next key of a table is its row count plus one.  deleted_at is modelled  *)
(* by is_deleted (deleted_at IS NOT NULL).  Fields no operation reads      *)
(* (name, symbol, detail, amount, the timestamps) are left out.            *)
(***************************************************************************)
EXTENDS Integers, FiniteSets, Sequences, TLC

VARIABLES chains, wallets, tokens, groups, payees, payments, last, writers

vars == <<chains, wallets, tokens, groups, payees, payments, last, writers>>

db == <<chains, wallets, tokens, groups, payees, payments>>

\* ---------------------------------------------------------------- bounds
MaxTokens == 2
MaxGroups == 1
MaxPayees == 2
MaxPayments == 1
NumWriters == 2

\* ------------------------------------------------------------ input sets
\* null=True foreign keys hold None; primary keys start at 1
None == 0

\* Chain.chain_id values offered to CreateChain: Ethereum mainnet and Polygon
ChainIds == {1, 137}

\* the primary keys Chain rows can get: chain_id is unique, so the table
\* never holds more rows than there are chain ids
ChainPks == 1 .. Cardinality(ChainIds)

\* ERC20Token.address values
TokenAddrs == {"0xT1", "0xT2"}

\* Wallet.ethereum_address values
WalletAddrs == {"0xW1"}

\* syntactically valid Ethereum addresses offered as Payee.wallet
EthAddrs == {"0xA", "0xB"}

\* Payee.wallet inputs, one of them malformed
PayeeWalletInputs == EthAddrs \cup {"not-an-address"}

\* ------------------------------------------------------------- helpers
\* the primary key the next insert into a table gets
NextId(rows) == Cardinality(rows) + 1

Ids(rows) == {r.id : r \in rows}

Row(rows, id) == CHOOSE r \in rows : r.id = id

\* the rows a conditional constraint ranges over: Q(deleted_at=None)
Live(rows) == {r \in rows : ~r.is_deleted}

Outcome(op, args, result) == [op |-> op, args |-> args, result |-> result]

\* ------------------------------------------------------- integrity rules
\* siwe_auth's validator of Payee.wallet: a well-formed Ethereum address
validate_ethereum_address(w) == w \in EthAddrs

\* Chain.chain_id is unique=True
chain_id_unique(rows, r) ==
    \A o \in rows : o.id # r.id => o.chain_id # r.chain_id

\* ERC20Token.Meta.constraints, as full_clean's validate_constraints applies
\* it: a live row shares (address, chain_id) with no other live row
unique_erc20token_address_chain_id(rows, r) ==
    r.is_deleted \/
    \A o \in Live(rows) :
        o.id # r.id => ~(o.address = r.address /\ o.chain = r.chain)

\* the table without the index: the constraint declared on the model only
erc20token_index_missing(rows, r) == TRUE

\* the same constraint as the migration adds it to the table: the partial
\* unique index every INSERT and UPDATE of the table is checked against
erc20token_unique_index(rows, r) ==
    r.is_deleted \/
    \A o \in Live(rows) :
        o.id # r.id => ~(o.address = r.address /\ o.chain = r.chain)

\* Payee without its constraint
payee_constraint_missing(rows, r) == TRUE

\* the constraint without condition=Q(deleted_at=None)
payee_constraint_unconditional(rows, r) ==
    \A o \in rows :
        o.id # r.id => ~(o.wallet = r.wallet /\ o.payment_group = r.payment_group)

\* Payee.Meta.constraints: a live row shares (wallet, payment_group) with no
\* other live row; validated by full_clean and enforced by the table's index
payee_wallet_payment_group(rows, r) ==
    r.is_deleted \/
    \A o \in Live(rows) :
        o.id # r.id => ~(o.wallet = r.wallet /\ o.payment_group = r.payment_group)

\* a foreign key column: the referenced row exists in its table (soft-deleted
\* rows are rows of the table), or the column is null where null=True
ForeignKeyOK(rows, id, nullable) ==
    (nullable /\ id = None) \/ id \in Ids(rows)

\* bool(instance): a model instance is truthy, None is not
bool(ref) == ref # None

\* PaymentGroup.use_erc20
use_erc20(g) == bool(g.token)

\* native currency decided by the chain instead of the token
use_native_currency_by_chain(g) == ~bool(g.chain)

\* PaymentGroup.use_native_currency
use_native_currency(g) == ~bool(g.token)

\* self.token.chain, read through the foreign key
TokenChain(g) == Row(tokens, g.token).chain

\* clean that compares the chains only when the group declares one
clean_skipping_unset_chain(g) ==
    ~(bool(g.token) /\ bool(g.chain) /\ g.chain # TokenChain(g))

\* PaymentGroup.clean: TRUE when no ValidationError is raised
clean(g) == ~(bool(g.token) /\ g.chain # TokenChain(g))

\* ------------------------------------------------------------ Chain
\* Chain(name, chain_id, native_currency): full_clean, then save
CreateChain(cid) ==
    LET r == [id |-> NextId(chains), chain_id |-> cid] IN
    /\ IF chain_id_unique(chains, r)
       THEN /\ chains' = chains \cup {r}
            /\ last' = Outcome("create_chain", <<cid>>, "ok")
       ELSE /\ chains' = chains
            /\ last' = Outcome("create_chain", <<cid>>, "UniquenessViolation")
    /\ UNCHANGED <<wallets, tokens, groups, payees, payments, writers>>

\* ------------------------------------------------------------ Wallet
\* the Wallet row of an address, created on its first authentication
CreateWallet(a) ==
    /\ a \notin wallets
    /\ wallets' = wallets \cup {a}
    /\ last' = Outcome("create_wallet", <<a>>, "ok")
    /\ UNCHANGED <<chains, tokens, groups, payees, payments, writers>>

\* ------------------------------------------------------------ ERC20Token
\* full_clean, then save, of a token row r that replaces row `old` (or is
\* new when old is the empty set)
WriteToken(op, args, old, r) ==
    LET others == tokens \ old IN
    /\ IF ~ForeignKeyOK(chains, r.chain, FALSE)
       THEN /\ tokens' = tokens
            /\ last' = Outcome(op, args, "ReferentialIntegrityError")
       ELSE IF ~unique_erc20token_address_chain_id(others, r)
                \/ ~erc20token_unique_index(others, r)
       THEN /\ tokens' = tokens
            /\ last' = Outcome(op, args, "UniquenessViolation")
       ELSE /\ tokens' = others \cup {r}
            /\ last' = Outcome(op, args, "ok")
    /\ UNCHANGED <<chains, wallets, groups, payees, payments, writers>>

\* save() alone, as delete() and restore() call it: only the table's index
SaveToken(op, args, old, r) ==
    LET others == tokens \ old IN
    /\ IF ~erc20token_unique_index(others, r)
       THEN /\ tokens' = tokens
            /\ last' = Outcome(op, args, "UniquenessViolation")
       ELSE /\ tokens' = others \cup {r}
            /\ last' = Outcome(op, args, "ok")
    /\ UNCHANGED <<chains, wallets, groups, payees, payments, writers>>

CreateToken(a, c) ==
    /\ Cardinality(tokens) < MaxTokens
    /\ WriteToken("create_token", <<a, c>>, {},
                  [id |-> NextId(tokens), address |-> a, chain |-> c,
                   is_deleted |-> FALSE])

UpdateToken(t, a, c) ==
    /\ t \in tokens
    /\ <<a, c>> # <<t.address, t.chain>>
    /\ WriteToken("update_token", <<t.id, a, c>>, {t},
                  [t EXCEPT !.address = a, !.chain = c])

\* SoftDeleteModel.delete: deleted_at = now, save
SoftDeleteToken(t) ==
    /\ t \in Live(tokens)
    /\ SaveToken("delete_token", <<t.id>>, {t}, [t EXCEPT !.is_deleted = TRUE])

\* SoftDeleteModel.restore: deleted_at = None, save
RestoreToken(t) ==
    /\ t \in tokens \ Live(tokens)
    /\ SaveToken("restore_token", <<t.id>>, {t}, [t EXCEPT !.is_deleted = FALSE])

\* ------------------------------------------------------------ PaymentGroup
\* delete() and restore() of a group, a payee or a payment mark the row
\* itself; on_delete=CASCADE of the foreign keys is the rule for removing a
\* row from its table, which no operation here does.
\* full_clean, then save, of a group row g replacing row `old`
WriteGroup(op, args, old, g) ==
    /\ IF ~(/\ g.wallet \in wallets
            /\ ForeignKeyOK(chains, g.chain, TRUE)
            /\ ForeignKeyOK(tokens, g.token, TRUE))
       THEN /\ groups' = groups
            /\ last' = Outcome(op, args, "ReferentialIntegrityError")
       ELSE IF ~clean(g)
       THEN /\ groups' = groups
            /\ last' = Outcome(op, args, "ValidationError")
       ELSE /\ groups' = (groups \ old) \cup {g}
            /\ last' = Outcome(op, args, "ok")
    /\ UNCHANGED <<chains, wallets, tokens, payees, payments, writers>>

CreatePaymentGroup(w, c, tk) ==
    /\ Cardinality(groups) < MaxGroups
    /\ WriteGroup("create_group", <<w, c, tk>>, {},
                  [id |-> NextId(groups), wallet |-> w, chain |-> c,
                   token |-> tk, is_deleted |-> FALSE])

UpdatePaymentGroup(g, c, tk) ==
    /\ g \in groups
    /\ <<c, tk>> # <<g.chain, g.token>>
    /\ WriteGroup("update_group", <<g.id, c, tk>>, {g},
                  [g EXCEPT !.chain = c, !.token = tk])

SoftDeletePaymentGroup(g) ==
    /\ g \in Live(groups)
    /\ groups' = (groups \ {g}) \cup {[g EXCEPT !.is_deleted = TRUE]}
    /\ last' = Outcome("delete_group", <<g.id>>, "ok")
    /\ UNCHANGED <<chains, wallets, tokens, payees, payments, writers>>

RestorePaymentGroup(g) ==
    /\ g \in groups \ Live(groups)
    /\ groups' = (groups \ {g}) \cup {[g EXCEPT !.is_deleted = FALSE]}
    /\ last' = Outcome("restore_group", <<g.id>>, "ok")
    /\ UNCHANGED <<chains, wallets, tokens, payees, payments, writers>>

\* ------------------------------------------------------------ Payee
\* full_clean, then save, of a payee row p replacing row `old`
WritePayee(op, args, old, p) ==
    LET others == payees \ old IN
    /\ IF ~validate_ethereum_address(p.wallet)
       THEN /\ payees' = payees
            /\ last' = Outcome(op, args, "ValidationError")
       ELSE IF ~ForeignKeyOK(groups, p.payment_group, FALSE)
       THEN /\ payees' = payees
            /\ last' = Outcome(op, args, "ReferentialIntegrityError")
       ELSE IF ~payee_wallet_payment_group(others, p)
       THEN /\ payees' = payees
            /\ last' = Outcome(op, args, "UniquenessViolation")
       ELSE /\ payees' = others \cup {p}
            /\ last' = Outcome(op, args, "ok")
    /\ UNCHANGED <<chains, wallets, tokens, groups, payments, writers>>

\* save() alone, as delete() and restore() call it
SavePayee(op, args, old, p) ==
    LET others == payees \ old IN
    /\ IF ~payee_wallet_payment_group(others, p)
       THEN /\ payees' = payees
            /\ last' = Outcome(op, args, "UniquenessViolation")
       ELSE /\ payees' = others \cup {p}
            /\ last' = Outcome(op, args, "ok")
    /\ UNCHANGED <<chains, wallets, tokens, groups, payments, writers>>

CreatePayee(w, g) ==
    /\ Cardinality(payees) < MaxPayees
    /\ WritePayee("create_payee", <<w, g>>, {},
                  [id |-> NextId(payees), wallet |-> w, payment_group |-> g,
                   is_deleted |-> FALSE])

UpdatePayee(p, w) ==
    /\ p \in payees
    /\ w # p.wallet
    /\ WritePayee("update_payee", <<p.id, w>>, {p}, [p EXCEPT !.wallet = w])

SoftDeletePayee(p) ==
    /\ p \in Live(payees)
    /\ SavePayee("delete_payee", <<p.id>>, {p}, [p EXCEPT !.is_deleted = TRUE])

RestorePayee(p) ==
    /\ p \in payees \ Live(payees)
    /\ SavePayee("restore_payee", <<p.id>>, {p}, [p EXCEPT !.is_deleted = FALSE])

\* ------------------------------------------------------------ Payment
\* Payment(payee=...): full_clean, then save
CreatePayment(p) ==
    /\ Cardinality(payments) < MaxPayments
    /\ IF ~ForeignKeyOK(payees, p, FALSE)
       THEN /\ payments' = payments
            /\ last' = Outcome("create_payment", <<p>>, "ReferentialIntegrityError")
       ELSE /\ payments' = payments \cup
                   {[id |-> NextId(payments), payee |-> p, is_deleted |-> FALSE]}
            /\ last' = Outcome("create_payment", <<p>>, "ok")
    /\ UNCHANGED <<chains, wallets, tokens, groups, payees, writers>>

SoftDeletePayment(m) ==
    /\ m \in Live(payments)
    /\ payments' = (payments \ {m}) \cup {[m EXCEPT !.is_deleted = TRUE]}
    /\ last' = Outcome("delete_payment", <<m.id>>, "ok")
    /\ UNCHANGED <<chains, wallets, tokens, groups, payees, writers>>

RestorePayment(m) ==
    /\ m \in payments \ Live(payments)
    /\ payments' = (payments \ {m}) \cup {[m EXCEPT !.is_deleted = FALSE]}
    /\ last' = Outcome("restore_payment", <<m.id>>, "ok")
    /\ UNCHANGED <<chains, wallets, tokens, groups, payees, writers>>

\* ------------------------------------------------------------ specification
\* a request that has not started: no table, no key
Idle == [w \in 1 .. NumWriters |-> [pc |-> "idle", table |-> "", key |-> <<>>]]

Init ==
    /\ chains = {}
    /\ wallets = {}
    /\ tokens = {}
    /\ groups = {}
    /\ payees = {}
    /\ payments = {}
    /\ last = Outcome("none", <<>>, "ok")
    /\ writers = Idle

Next ==
    \/ \E cid \in ChainIds : CreateChain(cid)
    \/ \E a \in WalletAddrs : CreateWallet(a)
    \/ \E a \in TokenAddrs, c \in ChainPks : CreateToken(a, c)
    \/ \E t \in tokens, a \in TokenAddrs, c \in Ids(chains) : UpdateToken(t, a, c)
    \/ \E t \in tokens : SoftDeleteToken(t)
    \/ \E t \in tokens : RestoreToken(t)
    \/ \E w \in wallets, c \in Ids(chains) \cup {None}, tk \in Ids(tokens) \cup {None} :
           CreatePaymentGroup(w, c, tk)
    \/ \E g \in groups, c \in Ids(chains) \cup {None}, tk \in Ids(tokens) \cup {None} :
           UpdatePaymentGroup(g, c, tk)
    \/ \E g \in groups : SoftDeletePaymentGroup(g)
    \/ \E g \in groups : RestorePaymentGroup(g)
    \/ \E w \in PayeeWalletInputs, g \in 1 .. MaxGroups : CreatePayee(w, g)
    \/ \E p \in payees, w \in PayeeWalletInputs : UpdatePayee(p, w)
    \/ \E p \in payees : SoftDeletePayee(p)
    \/ \E p \in payees : RestorePayee(p)
    \/ \E p \in 1 .. MaxPayees : CreatePayment(p)
    \/ \E m \in payments : SoftDeletePayment(m)
    \/ \E m \in payments : RestorePayment(m)

Spec == Init /\ [][Next]_vars

\* ---- the token registry alone: chains and tokens
NextTokens ==
    \/ \E cid \in ChainIds : CreateChain(cid)
    \/ \E a \in TokenAddrs, c \in ChainPks : CreateToken(a, c)
    \/ \E t \in tokens, a \in TokenAddrs, c \in Ids(chains) : UpdateToken(t, a, c)
    \/ \E t \in tokens : SoftDeleteToken(t)
    \/ \E t \in tokens : RestoreToken(t)

SpecTokens == Init /\ [][NextTokens]_vars

\* ---- payment groups over the chain and token registries
NextGroups ==
    \/ \E cid \in ChainIds : CreateChain(cid)
    \/ \E a \in WalletAddrs : CreateWallet(a)
    \/ \E a \in TokenAddrs, c \in ChainPks : CreateToken(a, c)
    \/ \E t \in tokens, a \in TokenAddrs, c \in Ids(chains) : UpdateToken(t, a, c)
    \/ \E w \in wallets, c \in Ids(chains) \cup {None}, tk \in Ids(tokens) \cup {None} :
           CreatePaymentGroup(w, c, tk)
    \/ \E g \in groups, c \in Ids(chains) \cup {None}, tk \in Ids(tokens) \cup {None} :
           UpdatePaymentGroup(g, c, tk)
    \/ \E g \in groups : SoftDeletePaymentGroup(g)
    \/ \E g \in groups : RestorePaymentGroup(g)

SpecGroups == Init /\ [][NextGroups]_vars

\* ---- payees and payments of payment groups that already exist: the
\* database after one wallet created MaxGroups native-currency groups
NativeGroups ==
    {[id |-> i, wallet |-> "0xW1", chain |-> None, token |-> None,
      is_deleted |-> FALSE] : i \in 1 .. MaxGroups}

InitPayees ==
    /\ chains = {}
    /\ wallets = {"0xW1"}
    /\ tokens = {}
    /\ groups = NativeGroups
    /\ payees = {}
    /\ payments = {}
    /\ last = Outcome("none", <<>>, "ok")
    /\ writers = Idle

NextPayees ==
    \/ \E g \in groups : SoftDeletePaymentGroup(g)
    \/ \E g \in groups : RestorePaymentGroup(g)
    \/ \E w \in PayeeWalletInputs, g \in 1 .. MaxGroups + 1 : CreatePayee(w, g)
    \/ \E p \in payees, w \in PayeeWalletInputs : UpdatePayee(p, w)
    \/ \E p \in payees : SoftDeletePayee(p)
    \/ \E p \in payees : RestorePayee(p)
    \/ \E p \in 1 .. MaxPayees : CreatePayment(p)
    \/ \E m \in payments : SoftDeletePayment(m)
    \/ \E m \in payments : RestorePayment(m)

SpecPayees == InitPayees /\ [][NextPayees]_vars

\* ---- restore against live-row uniqueness: tokens of one chain and payees
\* of the existing groups
InitRestore ==
    /\ chains = {[id |-> 1, chain_id |-> 1]}
    /\ wallets = {"0xW1"}
    /\ tokens = {}
    /\ groups = NativeGroups
    /\ payees = {}
    /\ payments = {}
    /\ last = Outcome("none", <<>>, "ok")
    /\ writers = Idle

NextRestore ==
    \/ \E a \in TokenAddrs, c \in ChainPks : CreateToken(a, c)
    \/ \E t \in tokens : SoftDeleteToken(t)
    \/ \E t \in tokens : RestoreToken(t)
    \/ \E w \in EthAddrs, g \in 1 .. MaxGroups : CreatePayee(w, g)
    \/ \E p \in payees : SoftDeletePayee(p)
    \/ \E p \in payees : RestorePayee(p)

SpecRestore == InitRestore /\ [][NextRestore]_vars

\* ------------------------------------------------------------ two writers
\* A create request is two steps that other requests can run between:
\* full_clean's validate_constraints (a query over the live rows) and the
\* INSERT (checked by the table's unique index).
Writers == 1 .. NumWriters

TokenRow(key) ==
    [id |-> NextId(tokens), address |-> key[1], chain |-> key[2],
     is_deleted |-> FALSE]

PayeeRow(key) ==
    [id |-> NextId(payees), wallet |-> key[1], payment_group |-> key[2],
     is_deleted |-> FALSE]

\* full_clean of a new token: validate_constraints
ValidateToken(w, key) ==
    /\ writers[w].pc = "idle"
    /\ writers' = [writers EXCEPT ![w] =
           [pc |-> IF unique_erc20token_address_chain_id(tokens, TokenRow(key))
                   THEN "validated" ELSE "rejected",
            table |-> "erc20token", key |-> key]]
    /\ UNCHANGED <<db, last>>

\* full_clean of a new payee: validate_constraints
ValidatePayee(w, key) ==
    /\ writers[w].pc = "idle"
    /\ writers' = [writers EXCEPT ![w] =
           [pc |-> IF payee_wallet_payment_group(payees, PayeeRow(key))
                   THEN "validated" ELSE "rejected",
            table |-> "payee", key |-> key]]
    /\ UNCHANGED <<db, last>>

\* save of the validated token: the INSERT, against the table's index
InsertToken(w) ==
    LET r == TokenRow(writers[w].key) IN
    /\ writers[w].pc = "validated"
    /\ writers[w].table = "erc20token"
    /\ IF erc20token_unique_index(tokens, r)
       THEN /\ tokens' = tokens \cup {r}
            /\ writers' = [writers EXCEPT ![w].pc = "inserted"]
       ELSE /\ tokens' = tokens
            /\ writers' = [writers EXCEPT ![w].pc = "conflict"]
    /\ UNCHANGED <<chains, wallets, groups, payees, payments, last>>

\* save of the validated payee: the INSERT, against the table's index
InsertPayee(w) ==
    LET r == PayeeRow(writers[w].key) IN
    /\ writers[w].pc = "validated"
    /\ writers[w].table = "payee"
    /\ IF payee_wallet_payment_group(payees, r)
       THEN /\ payees' = payees \cup {r}
            /\ writers' = [writers EXCEPT ![w].pc = "inserted"]
       ELSE /\ payees' = payees
            /\ writers' = [writers EXCEPT ![w].pc = "conflict"]
    /\ UNCHANGED <<chains, wallets, tokens, groups, payments, last>>

InitConc ==
    /\ chains = {[id |-> 1, chain_id |-> 1], [id |-> 2, chain_id |-> 137]}
    /\ wallets = {"0xW1"}
    /\ tokens = {}
    /\ groups = NativeGroups
    /\ payees = {}
    /\ payments = {}
    /\ last = Outcome("none", <<>>, "ok")
    /\ writers = Idle

NextConc ==
    \/ \E w \in Writers, a \in TokenAddrs, c \in ChainPks : ValidateToken(w, <<a, c>>)
    \/ \E w \in Writers, a \in EthAddrs, g \in 1 .. MaxGroups : ValidatePayee(w, <<a, g>>)
    \/ \E w \in Writers : InsertToken(w)
    \/ \E w \in Writers : InsertPayee(w)

SpecConc == InitConc /\ [][NextConc]_vars

\* ================================================================ claims
SameTokenKey(a, b) == a.address = b.address /\ a.chain = b.chain

SamePayeeKey(a, b) == a.wallet = b.wallet /\ a.payment_group = b.payment_group

TokenLiveUnique ==
    \A a, b \in Live(tokens) : SameTokenKey(a, b) => a = b

PayeeLiveUnique ==
    \A a, b \in Live(payees) : SamePayeeKey(a, b) => a = b

\* C1: every stored PaymentGroup whose token is set has the token's chain as
\* its own chain, in every reachable state.
C1_TokenOnGroupChain ==
    \A g \in groups : g.token # None => Row(tokens, g.token).chain = g.chain

\* C2: creating a PaymentGroup whose token is on another chain than the
\* declared one (an unset chain included) fails with a validation error and
\* stores no row; with a token on the declared chain, or no token, the
\* create stores the new live row.
C2_CreateGroupStep ==
    last'.op = "create_group" =>
        LET w == last'.args[1]
            c == last'.args[2]
            tk == last'.args[3]
            g == [id |-> NextId(groups), wallet |-> w, chain |-> c,
                  token |-> tk, is_deleted |-> FALSE]
        IN  IF tk # None /\ Row(tokens, tk).chain # c
            THEN last'.result = "ValidationError" /\ groups' = groups
            ELSE last'.result = "ok" /\ groups' = groups \cup {g}

C2_CreateGroupValidated == [][C2_CreateGroupStep]_vars

\* a create with a token and no declared chain was rejected, and nothing stored
C2_Witness ==
    /\ last.op = "create_group"
    /\ last.result = "ValidationError"
    /\ last.args[2] = None
    /\ last.args[3] # None
    /\ groups = {}

\* C3: no two live ERC20Token rows share (address, chain), and a create or
\* an update that would duplicate the key of a live row fails with a
\* uniqueness violation and leaves the table as it was.
C3_TokenWriteStep ==
    /\ last'.op = "create_token" =>
         ((\E o \in Live(tokens) :
               o.address = last'.args[1] /\ o.chain = last'.args[2])
          => last'.result = "UniquenessViolation" /\ tokens' = tokens)
    /\ last'.op = "update_token" =>
         ((/\ ~Row(tokens, last'.args[1]).is_deleted
           /\ \E o \in Live(tokens) :
                 /\ o.id # last'.args[1]
                 /\ o.address = last'.args[2]
                 /\ o.chain = last'.args[3])
          => last'.result = "UniquenessViolation" /\ tokens' = tokens)

C3_TokenUniqueness == []TokenLiveUnique /\ [][C3_TokenWriteStep]_vars

\* an update of a live row onto the key of another live row was rejected
C3_Witness ==
    /\ last.op = "update_token"
    /\ last.result = "UniquenessViolation"
    /\ Cardinality(Live(tokens)) >= 2

\* C4: no two live Payee rows share (wallet, payment_group), and a create
\* whose key a live row holds fails with a uniqueness error and leaves the
\* table as it was.
C4_PayeeCreateStep ==
    last'.op = "create_payee" =>
        ((\E o \in Live(payees) :
              o.wallet = last'.args[1] /\ o.payment_group = last'.args[2])
         => last'.result = "UniquenessViolation" /\ payees' = payees)

C4_PayeeUniqueness == []PayeeLiveUnique /\ [][C4_PayeeCreateStep]_vars

\* a duplicate create was rejected
C4_Witness ==
    /\ last.op = "create_payee"
    /\ last.result = "UniquenessViolation"
    /\ \E o \in Live(payees) :
           o.wallet = last.args[1] /\ o.payment_group = last.args[2]

\* C5: once a Payee is soft-deleted, a create with its (wallet,
\* payment_group) succeeds when no live row holds the key, and the
\* soft-deleted row stays stored, still marked deleted.
C5_CreateAfterSoftDeleteStep ==
    (/\ last'.op = "create_payee"
     /\ \E d \in payees \ Live(payees) :
            d.wallet = last'.args[1] /\ d.payment_group = last'.args[2]
     /\ ~\E o \in Live(payees) :
            o.wallet = last'.args[1] /\ o.payment_group = last'.args[2])
    => /\ last'.result = "ok"
       /\ payees' = payees \cup
              {[id |-> NextId(payees), wallet |-> last'.args[1],
                payment_group |-> last'.args[2], is_deleted |-> FALSE]}

C5_CreateAfterSoftDelete == [][C5_CreateAfterSoftDeleteStep]_vars

\* the key of a soft-deleted payee was taken again by a create
C5_Witness ==
    /\ last.op = "create_payee"
    /\ last.result = "ok"
    /\ \E d \in payees \ Live(payees), n \in Live(payees) :
           /\ SamePayeeKey(d, n)
           /\ n.id = Cardinality(payees)

\* C6: a Payment create succeeds only when its payee exists and is not
\* soft-deleted; otherwise it fails with a referential-integrity error and
\* stores no row.
C6_CreatePaymentStep ==
    last'.op = "create_payment" =>
        IF last'.args[1] \in Ids(Live(payees))
        THEN last'.result = "ok"
        ELSE last'.result = "ReferentialIntegrityError" /\ payments' = payments

C6_PaymentNeedsLivePayee == [][C6_CreatePaymentStep]_vars

\* C8: of the writers that create a row with one key at the same time, at
\* most one succeeds, whatever the order of their validate and insert steps,
\* and no state holds two live rows with one key.
C8_AtMostOneWriterWins ==
    /\ \A v, w \in Writers :
           (/\ writers[v].pc = "inserted"
            /\ writers[w].pc = "inserted"
            /\ writers[v].table = writers[w].table
            /\ writers[v].key = writers[w].key) => v = w
    /\ TokenLiveUnique
    /\ PayeeLiveUnique

\* two writers passed validation with one key; the index stopped the second
C8_Witness ==
    \E v, w \in Writers :
        /\ writers[v].pc = "inserted"
        /\ writers[w].pc = "conflict"
        /\ writers[v].table = writers[w].table
        /\ writers[v].key = writers[w].key

\* C9: of use_erc20 and use_native_currency exactly one holds for every
\* PaymentGroup: use_erc20 when the token is set, use_native_currency when
\* it is not.
C9_ExactlyOneCurrencyMode ==
    \A g \in groups :
        /\ use_erc20(g) # use_native_currency(g)
        /\ use_erc20(g) <=> g.token # None
        /\ use_native_currency(g) <=> g.token = None

\* an update set the token of a group that had none
C9_Witness ==
    /\ last.op = "update_group"
    /\ last.result = "ok"
    /\ \E g \in groups : g.id = last.args[1] /\ g.token # None /\ g.chain # None

\* C10: restore of a soft-deleted Payee or ERC20Token whose key a live row
\* holds is rejected and the row stays soft-deleted; otherwise restore makes
\* the row live again; so no two live rows ever share a key.
C10_RestoreStep ==
    /\ last'.op = "restore_payee" =>
         LET p == Row(payees, last'.args[1]) IN
         IF \E o \in Live(payees) : SamePayeeKey(o, p)
         THEN last'.result = "UniquenessViolation" /\ payees' = payees
         ELSE /\ last'.result = "ok"
              /\ payees' = (payees \ {p}) \cup {[p EXCEPT !.is_deleted = FALSE]}
    /\ last'.op = "restore_token" =>
         LET t == Row(tokens, last'.args[1]) IN
         IF \E o \in Live(tokens) : SameTokenKey(o, t)
         THEN last'.result = "UniquenessViolation" /\ tokens' = tokens
         ELSE /\ last'.result = "ok"
              /\ tokens' = (tokens \ {t}) \cup {[t EXCEPT !.is_deleted = FALSE]}

C10_RestoreKeepsUniqueness ==
    /\ []TokenLiveUnique
    /\ []PayeeLiveUnique
    /\ [][C10_RestoreStep]_vars

\* a payee restore was rejected for a live row with its key, while a
\* soft-deleted token stands beside a live token with its key
C10_Witness ==
    /\ last.op = "restore_payee"
    /\ last.result = "UniquenessViolation"
    /\ Row(payees, last.args[1]).is_deleted
    /\ \E o \in Live(payees) : SamePayeeKey(o, Row(payees, last.args[1]))
    /\ \E d \in tokens \ Live(tokens), o \in Live(tokens) : SameTokenKey(d, o)

====
